---- MODULE Spec2Model ----
(***************************************************************************)
(* Model of src/main.py: the FamilyModel store (load, save, generate_id,   *)
(* add_person, get, update_person, delete_person) and the generation       *)
(* layout of MainWindow (reload_scene, auto_layout, save_positions and the *)
(* drag of a node).                                                        *)
(*                                                                         *)
(* A person is a record with the keys of the dict built at main.py:58-68.  *)
(* Python lists are sequences.  The list arguments of add_person and       *)
(* update_person are fresh list objects, distinct from each other and from *)
(* the lists already held by the store, as in EditPersonDialog.accept      *)
(* (main.py:309-311), so a list is modelled by its value.                  *)
(***************************************************************************)
EXTENDS Integers, Sequences, FiniteSets, TLC

\* ---------------------------------------------------------------- bounds
\* add_person is not taken once generate_id() would exceed MaxId; the ids
\* in the argument lists range over 1..MaxId, present in the store or not.
MaxId == 2
\* longest parents / children list a caller passes
MaxLen == 2

\* Python's Optional values: None, or a value v written Some(v)
None == <<>>
Some(v) == <<v>>
IsNone(o) == Len(o) = 0
\* JSON values of the keys "x" and "y": null or a number
JNull == [type |-> "null"]
JNumber(n) == [type |-> "number", value |-> n]
\* data.json does not exist / holds a partially written document
NoFile == [file |-> "absent"]
Truncated == [file |-> "truncated"]
Written(doc) == [file |-> "written", doc |-> doc]

Ids == 1..MaxId
ListArgs == UNION {[1..n -> Ids] : n \in 0..MaxLen}
OptListArgs == {Some(l) : l \in ListArgs} \cup {None}
\* values of the scalar keyword arguments
Texts == {"t"}
OptTexts == {Some(t) : t \in Texts} \cup {None}

VARIABLES
    people,     \* FamilyModel.people: the in-memory list of person dicts
    disk,       \* the content of data.json: NoFile, Truncated or a JSON list
    lastOp,     \* the last call made: its name, id argument and outcome
    deleted,    \* ids removed by delete_person since the last load()
    node_map,   \* MainWindow.node_map: id -> position of the id's NodeItem
    levels,     \* the levels dict built by the last auto_layout run
    frame       \* the locals of an auto_layout call that is in its loop

vars == <<people, disk, lastOp, deleted, node_map, levels, frame>>

\* ------------------------------------------------------- list helpers
\* v in s
In(v, s) == \E i \in 1..Len(s) : s[i] = v

\* s.remove(v): delete the first occurrence of v
RemoveFirst(s, v) ==
    IF ~In(v, s) THEN s
    ELSE LET k == CHOOSE i \in 1..Len(s) :
                      s[i] = v /\ \A j \in 1..(i - 1) : s[j] # v
         IN  SubSeq(s, 1, k - 1) \o SubSeq(s, k + 1, Len(s))

\* [x for x in s if keep(x)]
RECURSIVE WithoutId(_, _)
WithoutId(ppl, id) ==
    IF ppl = <<>> THEN <<>>
    ELSE IF Head(ppl).id = id THEN WithoutId(Tail(ppl), id)
         ELSE <<Head(ppl)>> \o WithoutId(Tail(ppl), id)

IdsOf(ppl) == {ppl[i].id : i \in 1..Len(ppl)}

\* ------------------------------------------------------- persistence
\* json.dump: None is written as null; an int, a str and a list of ints are
\* written as themselves
json_dump_pos(o) == IF IsNone(o) THEN JNull ELSE JNumber(o[1])
json_dump(ppl) ==
    [i \in 1..Len(ppl) |->
        [ppl[i] EXCEPT !.x = json_dump_pos(@), !.y = json_dump_pos(@)]]

\* a reader that takes null for the number 0
json_load_pos_zero(v) == IF v.type = "null" THEN Some(0) ELSE Some(v.value)

\* json.load: null is read as None
json_load_pos(v) == IF v.type = "null" THEN None ELSE Some(v.value)
json_load(doc) ==
    [i \in 1..Len(doc) |->
        [doc[i] EXCEPT !.x = json_load_pos(@), !.y = json_load_pos(@)]]

\* outcomes of save(): written; open() raised and the file is as it was;
\* the write raised after open(..., "w") had truncated the file
SaveOutcomes == {"ok", "open_failed", "write_failed"}

save(ppl, dsk, outcome) ==
    CASE outcome = "ok" -> Written(json_dump(ppl))
      [] outcome = "open_failed" -> dsk
      [] OTHER -> Truncated

\* ------------------------------------------------------- FamilyModel
\* index in ppl of the first person with this id, 0 for None
get(ppl, id) ==
    IF \E i \in 1..Len(ppl) : ppl[i].id = id
    THEN CHOOSE i \in 1..Len(ppl) :
             ppl[i].id = id /\ \A j \in 1..(i - 1) : ppl[j].id # id
    ELSE 0

SeqMax(ppl) ==
    IF ppl = <<>> THEN 0
    ELSE CHOOSE m \in IdsOf(ppl) : \A n \in IdsOf(ppl) : n <= m

\* a generate_id that counts the persons instead of taking the largest id
generate_id_by_count(ppl) == Len(ppl) + 1

generate_id(ppl) == SeqMax(ppl) + 1

\* a fix-up that appends nid without looking whether it is there
RECURSIVE link_back_always(_, _, _, _)
link_back_always(ppl, targets, key, nid) ==
    IF targets = <<>> THEN ppl
    ELSE LET o == get(ppl, Head(targets))
             ppl1 == IF o # 0 THEN [ppl EXCEPT ![o][key] = Append(@, nid)]
                     ELSE ppl
         IN  link_back_always(ppl1, Tail(targets), key, nid)

\* for t in targets: o = get(t); if o and nid not in o[key]: o[key].append(nid)
RECURSIVE link_back(_, _, _, _)
link_back(ppl, targets, key, nid) ==
    IF targets = <<>> THEN ppl
    ELSE LET o == get(ppl, Head(targets))
             ppl1 == IF o # 0 /\ ~In(nid, ppl[o][key])
                     THEN [ppl EXCEPT ![o][key] = Append(@, nid)]
                     ELSE ppl
         IN  link_back(ppl1, Tail(targets), key, nid)

\* for t in olds: if t not in news: o = get(t);
\*                                  if o and nid in o[key]: o[key].remove(nid)
RECURSIVE unlink_back(_, _, _, _, _)
unlink_back(ppl, olds, news, key, nid) ==
    IF olds = <<>> THEN ppl
    ELSE LET o == get(ppl, Head(olds))
             ppl1 == IF ~In(Head(olds), news) /\ o # 0 /\ In(nid, ppl[o][key])
                     THEN [ppl EXCEPT ![o][key] = RemoveFirst(@, nid)]
                     ELSE ppl
         IN  unlink_back(ppl1, Tail(olds), news, key, nid)

\* l or []
OrEmpty(l) == IF IsNone(l) THEN <<>> ELSE l[1]

\* the collection add_person leaves in memory
add_person_mem(ppl, name, dob, description, parents, children) ==
    LET new_id == generate_id(ppl)
        person == [id |-> new_id, nombre |-> name, fecha_nacimiento |-> dob,
                   padres |-> OrEmpty(parents), hijos |-> OrEmpty(children),
                   descripcion |-> description, x |-> None, y |-> None]
        ppl1 == Append(ppl, person)
        ppl2 == link_back(ppl1, ppl1[Len(ppl1)].padres, "hijos", new_id)
    IN  link_back(ppl2, ppl2[Len(ppl2)].hijos, "padres", new_id)

\* a store of the scalar keys that blanks a key that was not supplied
set_scalar_clearing(rec, key, val) ==
    [rec EXCEPT ![key] = IF IsNone(val) THEN "" ELSE val[1]]

\* the scalar keys of update_person: only a supplied, non-None value is stored
set_scalar(rec, key, val) ==
    IF IsNone(val) THEN rec ELSE [rec EXCEPT ![key] = val[1]]

update_padres(ppl, p, padres) ==
    IF IsNone(padres) THEN ppl
    ELSE LET id == ppl[p].id
             new_parents == padres[1]
             ppl1 == unlink_back(ppl, ppl[p].padres, new_parents, "hijos", id)
             ppl2 == [ppl1 EXCEPT ![p].padres = new_parents]
         IN  link_back(ppl2, new_parents, "hijos", id)

update_hijos(ppl, p, hijos) ==
    IF IsNone(hijos) THEN ppl
    ELSE LET id == ppl[p].id
             new_children == hijos[1]
             ppl1 == unlink_back(ppl, ppl[p].hijos, new_children, "padres", id)
             ppl2 == [ppl1 EXCEPT ![p].hijos = new_children]
         IN  link_back(ppl2, new_children, "padres", id)

\* the collection update_person leaves in memory, p = get(id_) # None
update_person_mem(ppl, p, nombre, fecha, descripcion, padres, hijos) ==
    LET rec == set_scalar(set_scalar(set_scalar(ppl[p], "nombre", nombre),
                                     "fecha_nacimiento", fecha),
                          "descripcion", descripcion)
        ppl1 == [ppl EXCEPT ![p] = rec]
    IN  update_hijos(update_padres(ppl1, p, padres), p, hijos)

\* a delete_person that removes the person and leaves the lists of the
\* others as they are
delete_person_mem_keeping(ppl, id) == WithoutId(ppl, id)

\* the collection delete_person leaves in memory
delete_person_mem(ppl, id) ==
    LET cleared == [i \in 1..Len(ppl) |->
                       [ppl[i] EXCEPT !.padres = RemoveFirst(@, id),
                                      !.hijos = RemoveFirst(@, id)]]
    IN  WithoutId(cleared, id)

\* ------------------------------------------------------- the calls
\* what lastOp records of a call: its name, the id it was given, how it ended
\* (ret: "id", "true", "false", "none", "raised") and, for add_person, the id
\* it returned
Call(op, id, ret, val) == [op |-> op, id |-> id, ret |-> ret, val |-> val]

Ended(outcome, ret) == IF outcome = "ok" THEN ret ELSE "raised"

\* No caller in main.py catches an exception of save() (main.py:240, 252,
\* 311, 436): the call sequence ends with it, and the store is next used
\* through the load() of reload_scene or of a new FamilyModel.
Running == lastOp.ret # "raised"

\* no auto_layout call is in progress
NoFrame == [active |-> FALSE, current |-> <<>>, visited |-> {}]

\* FamilyModel.__init__ with no data.json: load() leaves people = []
Init ==
    /\ people = <<>>
    /\ disk = NoFile
    /\ lastOp = Call("init", 0, "none", 0)
    /\ deleted = {}
    /\ node_map = <<>>
    /\ levels = <<>>
    /\ frame = NoFrame

load ==
    /\ people' = CASE disk.file = "absent" -> <<>>
                   [] disk.file = "written" -> json_load(disk.doc)
                   [] OTHER -> people
    /\ lastOp' = Call("load", 0,
                      IF disk.file = "truncated" THEN "raised" ELSE "none", 0)
    /\ UNCHANGED <<disk, node_map, levels>>

add_person(name, dob, description, parents, children, outcome) ==
    /\ generate_id(people) <= MaxId
    /\ people' = add_person_mem(people, name, dob, description, parents, children)
    /\ disk' = save(people', disk, outcome)
    /\ lastOp' = Call("add_person", 0, Ended(outcome, "id"),
                      IF outcome = "ok" THEN generate_id(people) ELSE 0)
    /\ UNCHANGED <<node_map, levels>>

\* an update_person that calls save() before it returns False for an id no
\* person has
update_person_saving(id_, nombre, fecha, descripcion, padres, hijos, outcome) ==
    LET p == get(people, id_) IN
    /\ people' = IF p = 0 THEN people
                 ELSE update_person_mem(people, p, nombre, fecha, descripcion,
                                        padres, hijos)
    /\ disk' = save(people', disk, outcome)
    /\ lastOp' = Call("update_person", id_,
                      Ended(outcome, IF p = 0 THEN "false" ELSE "true"), 0)
    /\ UNCHANGED <<node_map, levels>>

update_person(id_, nombre, fecha, descripcion, padres, hijos, outcome) ==
    LET p == get(people, id_) IN
    IF p = 0
    THEN /\ lastOp' = Call("update_person", id_, "false", 0)
              /\ UNCHANGED <<people, disk, node_map, levels>>
    ELSE /\ people' = update_person_mem(people, p, nombre, fecha, descripcion,
                                        padres, hijos)
         /\ disk' = save(people', disk, outcome)
         /\ lastOp' = Call("update_person", id_, Ended(outcome, "true"), 0)
              /\ UNCHANGED <<node_map, levels>>

delete_person(id_, outcome) ==
    LET p == get(people, id_) IN
    IF p = 0
    THEN /\ lastOp' = Call("delete_person", id_, "false", 0)
              /\ UNCHANGED <<people, disk, node_map, levels>>
    ELSE /\ people' = delete_person_mem(people, id_)
         /\ disk' = save(people', disk, outcome)
         /\ lastOp' = Call("delete_person", id_, Ended(outcome, "true"), 0)
              /\ UNCHANGED <<node_map, levels>>

\* the scalar fields are passed as EditPersonDialog.accept passes them
AddPerson ==
    \E name \in Texts, parents \in OptListArgs, children \in OptListArgs,
       outcome \in SaveOutcomes :
        add_person(name, "", "", parents, children, outcome)

UpdatePerson ==
    \E id_ \in Ids, nombre \in Texts, padres \in OptListArgs,
       hijos \in OptListArgs, outcome \in SaveOutcomes :
        update_person(id_, Some(nombre), Some(""), Some(""), padres, hijos,
                      outcome)

DeletePerson ==
    \E id_ \in Ids, outcome \in SaveOutcomes : delete_person(id_, outcome)

\* The calls on the store, with any relationship lists.
Next ==
    \/ Running /\ AddPerson /\ UNCHANGED <<deleted, frame>>
    \/ Running /\ UpdatePerson /\ UNCHANGED <<deleted, frame>>
    \/ Running /\ DeletePerson /\ UNCHANGED <<deleted, frame>>
    \/ load /\ UNCHANGED <<deleted, frame>>

Spec == Init /\ [][Next]_vars

\* The history of one load session: the ids delete_person has removed from
\* the collection since the last load().
TrackDeleted ==
    deleted' = CASE lastOp'.op = "delete_person" /\ lastOp'.ret # "false" ->
                        deleted \cup {lastOp'.id}
                 [] lastOp'.op = "load" /\ lastOp'.ret # "raised" -> {}
                 [] OTHER -> deleted

\* Sessions of add_person and delete_person calls, with that history.
NextIds ==
    \/ Running /\ AddPerson /\ TrackDeleted /\ UNCHANGED frame
    \/ Running /\ DeletePerson /\ TrackDeleted /\ UNCHANGED frame
    \/ load /\ TrackDeleted /\ UNCHANGED frame

SpecIds == Init /\ [][NextIds]_vars

\* Callers that validate the lists they pass: no id twice, and only ids of
\* persons of the store, as the selection lists of EditPersonDialog give
\* them.
NoDup(l) == \A i, j \in 1..Len(l) : l[i] = l[j] => i = j
DupFree(o) == NoDup(OrEmpty(o))
Validated(o, ppl) ==
    DupFree(o) /\ \A i \in 1..Len(OrEmpty(o)) : get(ppl, OrEmpty(o)[i]) # 0

AddValidated ==
    \E name \in Texts, parents \in OptListArgs, children \in OptListArgs,
       outcome \in SaveOutcomes :
        /\ Validated(parents, people) /\ Validated(children, people)
        /\ add_person(name, "", "", parents, children, outcome)

UpdateValidated ==
    \E id_ \in Ids, nombre \in Texts, padres \in OptListArgs,
       hijos \in OptListArgs, outcome \in SaveOutcomes :
        /\ Validated(padres, people) /\ Validated(hijos, people)
        /\ update_person(id_, Some(nombre), Some(""), Some(""), padres, hijos,
                         outcome)

NextValidated ==
    \/ Running /\ AddValidated /\ TrackDeleted /\ UNCHANGED frame
    \/ Running /\ UpdateValidated /\ TrackDeleted /\ UNCHANGED frame
    \/ Running /\ DeletePerson /\ TrackDeleted /\ UNCHANGED frame
    \/ load /\ TrackDeleted /\ UNCHANGED frame

SpecValidated == Init /\ [][NextValidated]_vars

\* Callers that pass lists with no id twice, of any ids.
AddDupFree ==
    \E name \in Texts, parents \in OptListArgs, children \in OptListArgs,
       outcome \in SaveOutcomes :
        /\ DupFree(parents) /\ DupFree(children)
        /\ add_person(name, "", "", parents, children, outcome)

UpdateDupFree ==
    \E id_ \in Ids, nombre \in Texts, padres \in OptListArgs,
       hijos \in OptListArgs, outcome \in SaveOutcomes :
        /\ DupFree(padres) /\ DupFree(hijos)
        /\ update_person(id_, Some(nombre), Some(""), Some(""), padres, hijos,
                         outcome)

NextDupFree ==
    \/ Running /\ AddDupFree /\ UNCHANGED <<deleted, frame>>
    \/ Running /\ UpdateDupFree /\ UNCHANGED <<deleted, frame>>
    \/ Running /\ DeletePerson /\ UNCHANGED <<deleted, frame>>
    \/ load /\ UNCHANGED <<deleted, frame>>

SpecDupFree == Init /\ [][NextDupFree]_vars

\* Sessions in which update_person is called with scalar keyword arguments
\* only, each of them supplied or not.
Scalars == {"", "u"}
OptScalars == {Some(t) : t \in Scalars} \cup {None}

\* add_person with no list or with the parents list [1]
AddChild ==
    \E name \in Texts, parents \in {None, Some(<<1>>)}, outcome \in SaveOutcomes :
        add_person(name, "", "", parents, None, outcome)

UpdateScalars ==
    \E id_ \in Ids, nombre \in OptScalars, fecha \in OptScalars,
       descripcion \in OptScalars, outcome \in SaveOutcomes :
        update_person(id_, nombre, fecha, descripcion, None, None, outcome)

NextScalars ==
    \/ Running /\ AddChild /\ UNCHANGED <<deleted, frame>>
    \/ Running /\ UpdateScalars /\ UNCHANGED <<deleted, frame>>
    \/ load /\ UNCHANGED <<deleted, frame>>

SpecScalars == Init /\ [][NextScalars]_vars

\* ------------------------------------------------------- MainWindow
\* the pixels between two levels and between two nodes of a level
y_gap == 200
x_gap == 200

\* index in ppl of the last person with this id, 0 for none: the entry a dict
\* comprehension over the collection keeps for the key
last_with(ppl, id) ==
    IF \E i \in 1..Len(ppl) : ppl[i].id = id
    THEN CHOOSE i \in 1..Len(ppl) :
             ppl[i].id = id /\ \A j \in (i + 1)..Len(ppl) : ppl[j].id # id
    ELSE 0

\* id_to_children.get(nid, [])
id_to_children(ppl, nid) ==
    IF last_with(ppl, nid) = 0 THEN <<>> ELSE ppl[last_with(ppl, nid)].hijos

\* [p["id"] for p in people if keep(p)]
RECURSIVE ids_where(_, _)
ids_where(ppl, only_parentless) ==
    IF ppl = <<>> THEN <<>>
    ELSE IF only_parentless /\ Head(ppl).padres # <<>>
         THEN ids_where(Tail(ppl), only_parentless)
         ELSE <<Head(ppl).id>> \o ids_where(Tail(ppl), only_parentless)

\* a fallback that takes the first person only when nobody is parentless
roots_or_first(ppl) ==
    IF ids_where(ppl, TRUE) # <<>> THEN ids_where(ppl, TRUE)
    ELSE IF ppl = <<>> THEN <<>>
         ELSE <<Head(ppl).id>>

\* the people with no parents, or everybody when there are none
roots(ppl) ==
    IF ids_where(ppl, TRUE) # <<>> THEN ids_where(ppl, TRUE)
    ELSE ids_where(ppl, FALSE)

\* for c in children: if c not in visited and c not in next_level:
\*                        next_level.append(c)
RECURSIVE scan_children(_, _, _)
scan_children(children, visited, next_level) ==
    IF children = <<>> THEN next_level
    ELSE scan_children(Tail(children), visited,
                       IF Head(children) \notin visited
                          /\ ~In(Head(children), next_level)
                       THEN Append(next_level, Head(children))
                       ELSE next_level)

\* a scan of a level that adds no id to visited
RECURSIVE scan_level_unmarked(_, _, _, _)
scan_level_unmarked(ppl, current, visited, next_level) ==
    IF current = <<>> THEN [visited |-> visited, next_level |-> next_level]
    ELSE LET found == {scan_children(id_to_children(ppl, Head(current)),
                                     visited, next_level)}
         IN  CHOOSE r \in {scan_level_unmarked(ppl, Tail(current), visited, nl) :
                               nl \in found} : TRUE

\* for nid in current: visited.add(nid); scan the children of nid
RECURSIVE scan_level(_, _, _, _)
scan_level(ppl, current, visited, next_level) ==
    IF current = <<>> THEN [visited |-> visited, next_level |-> next_level]
    ELSE LET seen == visited \cup {Head(current)}
         IN  scan_level(ppl, Tail(current), seen,
                        scan_children(id_to_children(ppl, Head(current)),
                                      seen, next_level))

\* while current: levels[level] = current; ...; current = next_level
\* The k-th element of the result is levels[k - 1].
RECURSIVE build_levels(_, _, _, _)
build_levels(ppl, current, visited, done) ==
    IF current = <<>> THEN done
    ELSE LET r == scan_level(ppl, current, visited, <<>>)
         IN  build_levels(ppl, r.next_level, r.visited, Append(done, current))

\* x = (i - (n - 1) / 2) * x_gap for the i-th of n, i counted from 0:
\* a whole number for every i and n, as x_gap is even
level_x(i, n) == i * x_gap - ((n - 1) * x_gap) \div 2

\* a placing that moves a node by the offset instead of to the position
RECURSIVE place_level_by_offset(_, _, _, _)
place_level_by_offset(nodes, ids, i, lvl) ==
    IF i >= Len(ids) THEN nodes
    ELSE place_level_by_offset(
             IF ids[i + 1] \in DOMAIN nodes
             THEN [nodes EXCEPT ![ids[i + 1]] =
                       <<@[1] + level_x(i, Len(ids)), @[2] + lvl * y_gap>>]
             ELSE nodes,
             ids, i + 1, lvl)

\* for i, nid in enumerate(ids): node = node_map.get(nid);
\*                               if node: node.setPos(x, y)
RECURSIVE place_level(_, _, _, _)
place_level(nodes, ids, i, lvl) ==
    IF i >= Len(ids) THEN nodes
    ELSE place_level(IF ids[i + 1] \in DOMAIN nodes
                     THEN [nodes EXCEPT ![ids[i + 1]] =
                               <<level_x(i, Len(ids)), lvl * y_gap>>]
                     ELSE nodes,
                     ids, i + 1, lvl)

\* for lvl, ids in levels.items(): place the level
RECURSIVE place_levels(_, _, _)
place_levels(nodes, lvls, lvl) ==
    IF lvl >= Len(lvls) THEN nodes
    ELSE place_levels(place_level(nodes, lvls[lvl + 1], 0, lvl), lvls, lvl + 1)

\* p.get("x") or 0
or_zero(o) == IF IsNone(o) THEN 0 ELSE o[1]

\* node_map after the node loop of reload_scene: one NodeItem per id, placed
\* where the last person with the id is stored
nodes_of(ppl) ==
    [id \in IdsOf(ppl) |->
        <<or_zero(ppl[last_with(ppl, id)].x), or_zero(ppl[last_with(ppl, id)].y)>>]

reload_scene ==
    /\ disk.file # "truncated"
    /\ people' = IF disk.file = "absent" THEN <<>> ELSE json_load(disk.doc)
    /\ node_map' = nodes_of(people')
    /\ lastOp' = Call("reload_scene", 0, "none", 0)
    /\ UNCHANGED <<disk, deleted, levels, frame>>

\* for id_, node in node_map.items(): person = get(id_);
\*                                    if person is not None: store node.pos()
store_positions(ppl, nodes) ==
    [i \in 1..Len(ppl) |->
        IF ppl[i].id \in DOMAIN nodes /\ get(ppl, ppl[i].id) = i
        THEN [ppl[i] EXCEPT !.x = Some(nodes[ppl[i].id][1]),
                            !.y = Some(nodes[ppl[i].id][2])]
        ELSE ppl[i]]

\* an auto_layout that also stores the new positions in the person dicts
auto_layout_storing ==
    /\ levels' = build_levels(people, roots(people), {}, <<>>)
    /\ node_map' = place_levels(node_map, levels', 0)
    /\ people' = store_positions(people, node_map')
    /\ lastOp' = Call("auto_layout", 0, "none", 0)
    /\ UNCHANGED <<disk, deleted, frame>>

\* an auto_layout that puts the node of every id it has not visited at (0, 0)
auto_layout_resetting ==
    /\ levels' = build_levels(people, roots(people), {}, <<>>)
    /\ node_map' = place_levels([id \in DOMAIN node_map |-> <<0, 0>>],
                                levels', 0)
    /\ lastOp' = Call("auto_layout", 0, "none", 0)
    /\ UNCHANGED <<people, disk, deleted, frame>>

auto_layout ==
    /\ levels' = build_levels(people, roots(people), {}, <<>>)
    /\ node_map' = place_levels(node_map, levels', 0)
    /\ lastOp' = Call("auto_layout", 0, "none", 0)
    /\ UNCHANGED <<people, disk, deleted, frame>>

\* the user drags the NodeItem of id_ and drops it at pos (ItemIsMovable)
move_node(id_, pos) ==
    /\ id_ \in DOMAIN node_map
    /\ node_map' = [node_map EXCEPT ![id_] = pos]
    /\ lastOp' = Call("move_node", id_, "none", 0)
    /\ UNCHANGED <<people, disk, deleted, levels, frame>>

save_positions(outcome) ==
    /\ people' = store_positions(people, node_map)
    /\ disk' = save(people', disk, outcome)
    /\ lastOp' = Call("save_positions", 0, Ended(outcome, "none"), 0)
    /\ UNCHANGED <<deleted, node_map, levels, frame>>

\* ------------------------------------------------------- layout sessions
\* at most MaxPeople persons in a data.json the window is opened on
MaxPeople == 3

\* the persons 1..n with the parent -> child links of the set edges, each
\* list in ascending order of id
RECURSIVE SortedSeq(_)
SortedSeq(S) ==
    IF S = {} THEN <<>>
    ELSE LET m == CHOOSE x \in S : \A y \in S : x <= y
         IN  <<m>> \o SortedSeq(S \ {m})

Family(n, edges) ==
    [i \in 1..n |->
        [id |-> i, nombre |-> "t", fecha_nacimiento |-> "",
         padres |-> SortedSeq({a \in 1..n : <<a, i>> \in edges}),
         hijos |-> SortedSeq({b \in 1..n : <<i, b>> \in edges}),
         descripcion |-> "", x |-> None, y |-> None]]

Families ==
    UNION {{Family(n, edges) : edges \in SUBSET ((1..n) \X (1..n))} :
              n \in 0..MaxPeople}

\* MainWindow.__init__ on a data.json that holds a family: FamilyModel()
\* loads it and reload_scene() builds the nodes
InitLayout ==
    /\ people \in Families
    /\ disk = Written(json_dump(people))
    /\ lastOp = Call("init", 0, "none", 0)
    /\ deleted = {}
    /\ node_map = nodes_of(people)
    /\ levels = <<>>
    /\ frame = NoFrame

NextLayout == reload_scene \/ auto_layout

SpecLayout == InitLayout /\ [][NextLayout]_vars

\* ------------------------------------------------------- the layout loop
\* The while loop of auto_layout, one iteration per step.  The loop is cut
\* off at MaxLevels levels, more than it builds for MaxPeople persons.
MaxLevels == 2 * MaxPeople + 3

auto_layout_enter ==
    /\ ~frame.active
    /\ frame' = [active |-> TRUE, current |-> roots(people), visited |-> {}]
    /\ levels' = <<>>
    /\ UNCHANGED <<people, disk, lastOp, deleted, node_map>>

auto_layout_iterate ==
    /\ frame.active
    /\ frame.current # <<>>
    /\ Len(levels) < MaxLevels
    /\ levels' = Append(levels, frame.current)
    /\ LET r == scan_level(people, frame.current, frame.visited, <<>>)
       IN  frame' = [active |-> TRUE, current |-> r.next_level,
                     visited |-> r.visited]
    /\ UNCHANGED <<people, disk, lastOp, deleted, node_map>>

auto_layout_return ==
    /\ frame.active
    /\ frame.current = <<>>
    /\ node_map' = place_levels(node_map, levels, 0)
    /\ lastOp' = Call("auto_layout", 0, "none", 0)
    /\ frame' = NoFrame
    /\ UNCHANGED <<people, disk, deleted, levels>>

\* a family whose last person also has the child Len(ppl) + 1, an id no
\* person has
WithAbsentChild(ppl) ==
    [i \in 1..Len(ppl) |->
        IF i = Len(ppl) THEN [ppl[i] EXCEPT !.hijos = Append(@, Len(ppl) + 1)]
        ELSE ppl[i]]

LoopFamilies == Families \cup {WithAbsentChild(f) : f \in Families}

InitLoop ==
    /\ people \in LoopFamilies
    /\ disk = Written(json_dump(people))
    /\ lastOp = Call("init", 0, "none", 0)
    /\ deleted = {}
    /\ node_map = nodes_of(people)
    /\ levels = <<>>
    /\ frame = NoFrame

NextLoop == auto_layout_enter \/ auto_layout_iterate \/ auto_layout_return

\* auto_layout runs to its end once called: nothing else runs in between
SpecLoop ==
    /\ InitLoop
    /\ [][NextLoop]_vars
    /\ WF_vars(auto_layout_iterate)
    /\ WF_vars(auto_layout_return)

\* ------------------------------------------------------- window sessions
\* where a dragged node is dropped
Drops == {<<30, 70>>}

\* The toolbar actions and the drags of one window.  An exception of
\* save_positions ends the process; the next window starts with the
\* load() and reload_scene() of MainWindow.__init__.
NextWindow ==
    \/ reload_scene
    \/ Running /\ auto_layout
    \/ Running /\ \E id_ \in 1..MaxPeople, pos \in Drops : move_node(id_, pos)
    \/ Running /\ \E outcome \in SaveOutcomes : save_positions(outcome)

SpecWindow == InitLayout /\ [][NextWindow]_vars

\* ------------------------------------------------------- properties
\* the person with this id, for an id of the collection
Person(ppl, id) == ppl[get(ppl, id)]

\* I1: b is a child of a exactly when a is a parent of b
Reciprocal(ppl) ==
    \A i, j \in 1..Len(ppl) :
        In(ppl[j].id, ppl[i].hijos) <=> In(ppl[i].id, ppl[j].padres)

\* the ids the relationship lists of the collection name
Referenced(ppl) ==
    UNION {{ppl[i].padres[k] : k \in 1..Len(ppl[i].padres)}
           \cup {ppl[i].hijos[k] : k \in 1..Len(ppl[i].hijos)} :
               i \in 1..Len(ppl)}

\* C1: after every add_person, update_person or delete_person call that
\* returns, for every two persons a and b of the store, b is in the children
\* of a if and only if a is in the parents of b.
C1_Reciprocity == Running => Reciprocal(people)

\* C2: after every add_person, update_person or delete_person call that
\* returns, every id in a parents or children list is the id of a person of
\* the store.
C2_NoDangling == Running => \A x \in Referenced(people) : get(people, x) # 0

\* C3: when delete_person(id) returns true, the person with the id is gone,
\* no parents or children list of the store holds the id, and every other
\* person is still in the store.
C3_DeleteComplete ==
    [][(lastOp'.op = "delete_person" /\ lastOp'.ret = "true") =>
          /\ get(people', lastOp'.id) = 0
          /\ lastOp'.id \notin Referenced(people')
          /\ IdsOf(people') = IdsOf(people) \ {lastOp'.id}]_vars

\* C4: when update_person(id, ...) returns true, a supplied parents list is
\* the person's parents list on return, each person that was a parent and is
\* not in the list no longer has id as a child, and each person of the store
\* in the list has id as a child; likewise for a supplied children list; also
\* when both lists are supplied in one call.
C4_UpdateReplaces ==
    [][\A id_ \in Ids, padres \in OptListArgs, hijos \in OptListArgs :
          (/\ get(people, id_) # 0
           /\ \E nombre \in Texts :
                  update_person(id_, Some(nombre), Some(""), Some(""), padres,
                                hijos, "ok"))
          => /\ ~IsNone(padres) =>
                  /\ Person(people', id_).padres = padres[1]
                  /\ \A i \in 1..Len(people') :
                        (/\ In(people'[i].id, Person(people, id_).padres)
                         /\ ~In(people'[i].id, padres[1]))
                        => ~In(id_, people'[i].hijos)
                  /\ \A i \in 1..Len(people') :
                        In(people'[i].id, padres[1]) => In(id_, people'[i].hijos)
             /\ ~IsNone(hijos) =>
                  /\ Person(people', id_).hijos = hijos[1]
                  /\ \A i \in 1..Len(people') :
                        (/\ In(people'[i].id, Person(people, id_).hijos)
                         /\ ~In(people'[i].id, hijos[1]))
                        => ~In(id_, people'[i].padres)
                  /\ \A i \in 1..Len(people') :
                        In(people'[i].id, hijos[1]) => In(id_, people'[i].padres)
      ]_vars

\* C5: the id add_person returns is not the id of a person that delete_person
\* has removed earlier in the load session.
C5_NoIdReuse ==
    (lastOp.op = "add_person" /\ lastOp.ret = "id") => lastOp.val \notin deleted

Mutators == {"add_person", "update_person", "delete_person"}

\* C6: generate_id() is greater than every id of the store and is 1 on the
\* empty store, no two persons of the store share an id, and add_person
\* returns the value generate_id() had before the call, which is the id of
\* the person it appended.
C6_IdMonotone ==
    /\ [](/\ \A i \in 1..Len(people) : people[i].id < generate_id(people)
          /\ people = <<>> => generate_id(people) = 1
          /\ \A i, j \in 1..Len(people) :
                people[i].id = people[j].id => i = j)
    /\ [][(lastOp'.op = "add_person" /\ lastOp'.ret = "id") =>
             /\ lastOp'.val = generate_id(people)
             /\ Len(people') = Len(people) + 1
             /\ people'[Len(people')].id = lastOp'.val
             /\ \A i \in 1..Len(people) : people'[i].id = people[i].id]_vars

\* add_person has returned 2 for the second person of a store
C6_Witness ==
    /\ lastOp.op = "add_person" /\ lastOp.ret = "id" /\ lastOp.val = 2
    /\ Len(people) = 2

\* C7: update_person and delete_person called with an id no person of the
\* store has return false, without raising, and leave the collection in
\* memory and data.json as they were.
C7_UnknownId ==
    [][(lastOp'.op \in {"update_person", "delete_person"}
        /\ get(people, lastOp'.id) = 0)
       => (lastOp'.ret = "false" /\ people' = people /\ disk' = disk)]_vars

\* update_person has returned false on a store that holds a person, and
\* delete_person on a store whose data.json was never written
C7_Witness ==
    \/ lastOp.op = "update_person" /\ lastOp.ret = "false" /\ people # <<>>
    \/ lastOp.op = "delete_person" /\ lastOp.ret = "false" /\ disk = NoFile

\* C8: when the save() of add_person, update_person or delete_person raises,
\* the collection in memory is the one before the call.
C8_FailureAtomic ==
    [][(lastOp'.op \in Mutators /\ lastOp'.ret = "raised")
       => people' = people]_vars

\* C9: after an add_person, update_person or delete_person call that returned
\* an id or true, data.json holds the collection in memory and load() reads
\* that collection back; load() with no data.json gives the empty collection.
C9_Convergence ==
    /\ []((lastOp.op \in Mutators /\ lastOp.ret \in {"id", "true"}) =>
            /\ disk = Written(json_dump(people))
            /\ json_load(disk.doc) = people)
    /\ [][(lastOp'.op = "load" /\ lastOp.op \in Mutators
           /\ lastOp.ret \in {"id", "true"}) => people' = people]_vars
    /\ [][(lastOp'.op = "load" /\ disk = NoFile) => people' = <<>>]_vars

\* update_person has returned true on a store of two linked persons
C9_Witness ==
    /\ lastOp.op = "update_person" /\ lastOp.ret = "true"
    /\ Len(people) = 2
    /\ \E i \in 1..2 : people[i].padres # <<>>

\* the ids auto_layout has visited, and the levels that hold an id
Visited == UNION {{levels[k][i] : i \in 1..Len(levels[k])} : k \in 1..Len(levels)}
LevelsOf(nid) == {k - 1 : k \in {l \in 1..Len(levels) : In(nid, levels[l])}}

\* the ids reached from the root set by k child links, and the depth of an id
RECURSIVE Ring(_, _)
Ring(ppl, k) ==
    IF k = 0 THEN {roots(ppl)[i] : i \in 1..Len(roots(ppl))}
    ELSE UNION {{id_to_children(ppl, nid)[i] :
                    i \in 1..Len(id_to_children(ppl, nid))} :
                   nid \in Ring(ppl, k - 1)}
Depth(ppl, nid) ==
    CHOOSE k \in 0..Len(ppl) :
        nid \in Ring(ppl, k) /\ \A j \in 0..(k - 1) : nid \notin Ring(ppl, j)

\* C10: after auto_layout every visited id is in exactly one level, the level
\* of its depth from the root set, and the node of the id is at y = depth *
\* y_gap.
C10_FirstReachLevel ==
    lastOp.op = "auto_layout" =>
        \A nid \in Visited :
            /\ LevelsOf(nid) = {Depth(people, nid)}
            /\ nid \in DOMAIN node_map =>
                  node_map[nid][2] = Depth(people, nid) * y_gap

\* (i - (n - 1) / 2) * x_gap, and the sum of it over the first k of n members
CenteredX(i, n) == ((2 * i - (n - 1)) * x_gap) \div 2
RECURSIVE SumCenteredX(_, _)
SumCenteredX(k, n) ==
    IF k = 0 THEN 0 ELSE CenteredX(k - 1, n) + SumCenteredX(k - 1, n)

\* C11: after auto_layout, for every level lvl with n members, the node of the
\* i-th member (i counted from 0) is at x = (i - (n - 1) / 2) * x_gap and
\* y = lvl * y_gap, and the x-coordinates of the level sum to 0.
C11_Centering ==
    lastOp.op = "auto_layout" =>
        \A k \in 1..Len(levels) :
            LET n == Len(levels[k]) IN
            /\ SumCenteredX(n, n) = 0
            /\ \A i \in 1..n :
                  levels[k][i] \in DOMAIN node_map =>
                      node_map[levels[k][i]] =
                          <<CenteredX(i - 1, n), (k - 1) * y_gap>>

\* the ids of the persons with no parents, or of all persons when there is
\* none, and the ids reached from a set of ids by child links
RootSet(ppl) ==
    LET parentless == {ppl[i].id : i \in {j \in 1..Len(ppl) : ppl[j].padres = <<>>}}
    IN  IF parentless = {} THEN IdsOf(ppl) ELSE parentless
RECURSIVE Closure(_, _)
Closure(ppl, S) ==
    LET T == S \cup {c \in 1..(Len(ppl) + 1) :
                        \E i \in 1..Len(ppl) : ppl[i].id \in S /\ In(c, ppl[i].hijos)}
    IN  IF T = S THEN S ELSE Closure(ppl, T)

\* C12: an auto_layout run visits exactly the persons reached from the root
\* set by child links and puts the node of each at the place of one of the
\* levels that hold it; the node of every other person stays where it was.
C12_Coverage ==
    [][lastOp'.op = "auto_layout" =>
          LET reach == Closure(people, RootSet(people)) IN
          /\ Visited' \cap IdsOf(people) = reach \cap IdsOf(people)
          /\ DOMAIN node_map' = DOMAIN node_map
          /\ \A id \in DOMAIN node_map :
                IF id \in reach
                THEN \E k \in 1..Len(levels') :
                         \E i \in 1..Len(levels'[k]) :
                             /\ levels'[k][i] = id
                             /\ node_map'[id] =
                                    <<CenteredX(i - 1, Len(levels'[k])),
                                      (k - 1) * y_gap>>
                ELSE node_map'[id] = node_map[id]]_vars

\* auto_layout has run on a family with a visited person and with a person it
\* did not visit, whose node is where the user had dropped it
C12_Witness ==
    /\ lastOp.op = "auto_layout"
    /\ \E a, b \in DOMAIN node_map :
          a \in Visited /\ b \notin Visited /\ node_map[b] \in Drops

\* the places in the collection of the persons of level 0
RootPlaces(ppl) ==
    LET parentless == {i \in 1..Len(ppl) : ppl[i].padres = <<>>}
    IN  IF parentless = {} THEN 1..Len(ppl) ELSE parentless

\* C13: after auto_layout on a collection that is not empty, level 0 is the
\* ids of the persons with an empty parents list, in collection order, when
\* there is such a person, and the ids of all persons in collection order
\* when there is none; the call returns normally in both cases.
C13_RootSet ==
    (lastOp.op = "auto_layout" /\ people # <<>>) =>
        /\ lastOp.ret = "none"
        /\ levels # <<>>
        /\ levels[1] = [k \in 1..Cardinality(RootPlaces(people)) |->
                           people[SortedSeq(RootPlaces(people))[k]].id]

\* auto_layout has run on two or more persons who all have a parent, and
\* level 0 holds every one of them
C13_Witness ==
    /\ lastOp.op = "auto_layout"
    /\ Len(people) >= 2
    /\ \A i \in 1..Len(people) : people[i].padres # <<>>
    /\ Len(levels[1]) = Len(people)

\* the value of a scalar key after an update that supplied val or left it out
Supplied(old, val) == IF IsNone(val) THEN old ELSE val[1]

\* C14: update_person(id, ...) on an id of the store, with no padres and no
\* hijos argument, stores each supplied scalar on the person with the id and
\* leaves that person's other scalars, id, x, y, padres and hijos and every
\* other person as they were.
C14_ScalarFrame ==
    [][\A id_ \in Ids, nombre \in OptScalars, fecha \in OptScalars,
          descripcion \in OptScalars :
          (/\ lastOp'.op = "update_person" /\ lastOp'.id = id_
           /\ get(people, id_) # 0
           /\ \E outcome \in SaveOutcomes :
                  update_person(id_, nombre, fecha, descripcion, None, None,
                                outcome))
          => LET p == get(people, id_) IN
             /\ Len(people') = Len(people)
             /\ \A i \in 1..Len(people) : i # p => people'[i] = people[i]
             /\ people'[p].nombre = Supplied(people[p].nombre, nombre)
             /\ people'[p].fecha_nacimiento =
                    Supplied(people[p].fecha_nacimiento, fecha)
             /\ people'[p].descripcion =
                    Supplied(people[p].descripcion, descripcion)
             /\ people'[p].id = people[p].id
             /\ people'[p].x = people[p].x /\ people'[p].y = people[p].y
             /\ people'[p].padres = people[p].padres
             /\ people'[p].hijos = people[p].hijos
      ]_vars

\* update_person has returned true for a person with a parent who still has
\* the name given by add_person and has a birth date and a description that
\* only an update can have stored
C14_Witness ==
    /\ lastOp.op = "update_person" /\ lastOp.ret = "true"
    /\ Len(people) = 2
    /\ Person(people, lastOp.id).nombre = "t"
    /\ Person(people, lastOp.id).fecha_nacimiento = "u"
    /\ Person(people, lastOp.id).padres # <<>>

\* C15: auto_layout leaves the person collection and data.json as they were;
\* data.json is written only by save_positions, the stored x and y of a
\* person change only when save_positions stores them or reload_scene reads
\* data.json, and save_positions stores the position of each person's node.
C15_LayoutReadOnly ==
    [][/\ lastOp'.op = "auto_layout" => (people' = people /\ disk' = disk)
       /\ disk' # disk => lastOp'.op = "save_positions"
       /\ people' # people => lastOp'.op \in {"save_positions", "reload_scene"}
       /\ lastOp'.op = "save_positions" =>
              \A i \in 1..Len(people') :
                  /\ people'[i].x = Some(node_map[people'[i].id][1])
                  /\ people'[i].y = Some(node_map[people'[i].id][2])
      ]_vars

\* auto_layout has moved the node of a person to the second level while the
\* person still has the stored position of an earlier save_positions
C15_Witness ==
    /\ lastOp.op = "auto_layout"
    /\ \E i \in 1..Len(people) :
          /\ people[i].y = Some(70)
          /\ node_map[people[i].id][2] = y_gap

\* the position the levels alone give an id: that of its place in the last
\* level that holds it
PlaceIn(lvls, nid) ==
    LET k == CHOOSE l \in 1..Len(lvls) :
                 In(nid, lvls[l]) /\ \A m \in (l + 1)..Len(lvls) : ~In(nid, lvls[m])
        i == CHOOSE j \in 1..Len(lvls[k]) : lvls[k][j] = nid
    IN  <<CenteredX(i - 1, Len(lvls[k])), (k - 1) * y_gap>>

\* C16: in a session on one collection every auto_layout run builds the
\* levels the run before it built, and after a run the position of each
\* visited node is the one these levels give it, wherever the nodes were
\* before the run: two runs give the same id-to-position mapping.
C16_Deterministic ==
    /\ [](lastOp.op = "auto_layout" =>
             \A nid \in Visited \cap DOMAIN node_map :
                 node_map[nid] = PlaceIn(levels, nid))
    /\ [][(lastOp'.op = "auto_layout" /\ levels # <<>>) => levels' = levels]_vars

\* auto_layout has run again after save_positions had stored the positions
\* of an earlier run, with a node dragged away in between
C16_Witness ==
    /\ lastOp.op = "auto_layout"
    /\ \E i, j \in 1..Len(people) :
          /\ people[i].y = Some(y_gap)
          /\ people[j].x = Some(30)
          /\ node_map[people[j].id] # <<30, 70>>

\* C17: when add_person(name, ..., parents = P, children = C) returns the id
\* n, the new person has the parents P and the children C, every person of
\* the store in P has n among its children and every person of the store in
\* C has n among its parents, and the lists of the persons that were in the
\* store before are otherwise as they were.
C17_AddFixup ==
    [][\A parents \in OptListArgs, children \in OptListArgs :
          (\E name \in Texts :
               add_person(name, "", "", parents, children, "ok"))
          => LET n == lastOp'.val
                 new == people'[Len(people')]
             IN  /\ new.id = n
                 /\ new.padres = OrEmpty(parents)
                 /\ new.hijos = OrEmpty(children)
                 /\ \A i \in 1..Len(people') :
                       /\ In(people'[i].id, OrEmpty(parents)) =>
                              In(n, people'[i].hijos)
                       /\ In(people'[i].id, OrEmpty(children)) =>
                              In(n, people'[i].padres)
                 /\ \A i \in 1..Len(people) :
                       /\ people'[i].hijos \in
                              {people[i].hijos, Append(people[i].hijos, n)}
                       /\ people'[i].padres \in
                              {people[i].padres, Append(people[i].padres, n)}
                       /\ people'[i].hijos # people[i].hijos =>
                              In(people[i].id, OrEmpty(parents))
                       /\ people'[i].padres # people[i].padres =>
                              In(people[i].id, OrEmpty(children))
      ]_vars

\* C18: no auto_layout call stays in its level loop for ever, and none is
\* stopped by the cut-off at MaxLevels levels, for every family, also one
\* with cycles, self-links, no parentless person or a child id that no
\* person has.
C18_LoopTerminates ==
    /\ []((frame.active /\ frame.current # <<>>) => Len(levels) < MaxLevels)
    /\ []<>(~frame.active)

\* auto_layout has returned for two or more persons who all have a parent,
\* one of them with a child id that no person has, after two or more levels
C18_Witness ==
    /\ lastOp.op = "auto_layout" /\ ~frame.active
    /\ Len(people) >= 2
    /\ \A i \in 1..Len(people) : people[i].padres # <<>>
    /\ \E i \in 1..Len(people) : In(Len(people) + 1, people[i].hijos)
    /\ Len(levels) >= 2

\* C19: when every list passed to add_person and update_person has no id
\* twice and names only persons of the store, then after every call, also
\* one whose save() raised, b is a child of a exactly when a is a parent of
\* b and every id in a list is the id of a person of the store.
C19_ValidatedConsistent ==
    /\ Reciprocal(people)
    /\ Referenced(people) \subseteq IdsOf(people)

\* add_person has returned an id that delete_person had removed, into a
\* store with a person who is its own parent
C19_Witness ==
    /\ lastOp.op = "add_person" /\ lastOp.ret = "id"
    /\ lastOp.val \in deleted
    /\ \E i \in 1..Len(people) : In(people[i].id, people[i].padres)

\* C20: when no list passed to add_person and update_person has an id
\* twice, no parents list and no children list of the store has an id twice
\* after any sequence of add_person, update_person and delete_person calls.
C20_NoDuplicates ==
    \A i \in 1..Len(people) :
        NoDup(people[i].padres) /\ NoDup(people[i].hijos)

\* update_person has returned true on a store of two persons who each have
\* both persons as parents and as children
C20_Witness ==
    /\ lastOp.op = "update_person" /\ lastOp.ret = "true"
    /\ Len(people) = 2
    /\ \A i \in 1..2 : Len(people[i].padres) = 2 /\ Len(people[i].hijos) = 2
====
